---- MODULE Spec2Model ----
(***************************************************************************)
(* A model of pycheribuild/projects/meson_project.py: the MesonProject     *)
(* adapter (version floor, setup, needs_configure, configure, run_tests),  *)
(* the build directory it works in and the commands it issues.             *)
(*                                                                         *)
(* Strings of the command line are modelled as tokens: a plain argument s  *)
(* is the 1-tuple <<s>>, and the string "-D" + key + "=" + value is the    *)
(* 3-tuple <<"-D", key, value>>, so that "starts with -Dkey=" is a test on *)
(* the first two components.  Directories of the RPATH computation are     *)
(* sequences of path components, so that Path.relative_to is computed.     *)
(***************************************************************************)
EXTENDS Integers, Sequences, FiniteSets, TLC

\* ------------------------------------------------------------------ bounds
\* Number of configure() calls explored on one adapter.
MaxConfigureCalls == 2
\* Number of run_tests() calls explored on one adapter.
MaxTestRuns == 1
\* Number of set_minimum_meson_version() calls explored (the one of __init__ included).
MaxVersionCalls == 4
\* Version triples tried: major in 0..MaxMajor, minor within MinorSpread of 57, patch in 0..MaxPatch.
MaxMajor == 1
MinorSpread == 1
MaxPatch == 1
\* Longest dependency_install_prefixes / additional_rpath_directories list tried.
MaxPrefixes == 2
MaxRpathDirs == 2

\* --------------------------------------------------------- program constants
\* self.set_minimum_meson_version(0, 57) in __init__, patch defaulting to 0.
MinMesonMajor == 0
MinMesonMinor == 57
DefaultPatch == 0

None == "None"
NoVersion == <<>>

build_dir == "/build"
source_dir == "/src"
install_dir == "/rootfs/opt/install"
custom_prefix == "/usr/local"
other_tools_dir == "/tools"
rootfs_dir == <<"rootfs">>
default_libdir == <<"lib">>
make_jobs == "8"

\* ------------------------------------------------------------------ helpers
Arg(s) == <<s>>

\* Path.__truediv__ and str(): build_dir / "name"
PathJoin(dir, name) == dir \o "/" \o name

Range(s) == {s[i] : i \in 1..Len(s)}

SeqsUpTo(S, n) == UNION {[1..k -> S] : k \in 0..n}

RECURSIVE Count(_, _)
Count(s, x) == IF s = <<>> THEN 0
               ELSE (IF Head(s) = x THEN 1 ELSE 0) + Count(Tail(s), x)

\* utils.remove_duplicates: keeps the first occurrence of every element.
RECURSIVE remove_duplicates_from(_, _)
remove_duplicates_from(s, seen) ==
    IF s = <<>> THEN <<>>
    ELSE IF Head(s) \in seen THEN remove_duplicates_from(Tail(s), seen)
    ELSE <<Head(s)>> \o remove_duplicates_from(Tail(s), seen \cup {Head(s)})

remove_duplicates(s) == remove_duplicates_from(s, {})

\* MesonProject._bool_to_str
bool_to_str(value) == IF value THEN "true" ELSE "false"

\* _CMakeAndMesonSharedLogic._add_configure_options for one key: an option of
\* that key already in the list is replaced (removed, the new one appended).
IsOption(tok, option) == Len(tok) = 3 /\ tok[1] = "-D" /\ tok[2] = option

add_configure_option(args, option, value) ==
    Append(SelectSeq(args, LAMBDA tok : ~IsOption(tok, option)), <<"-D", option, value>>)

\* MesonProject.add_meson_options(**kwargs): kwargs as a sequence of <<key, value>>.
RECURSIVE add_meson_options(_, _)
add_meson_options(args, kwargs) ==
    IF kwargs = <<>> THEN args
    ELSE add_meson_options(add_configure_option(args, Head(kwargs)[1], Head(kwargs)[2]),
                           Tail(kwargs))

\* BuildType.RELWITHDEBINFO.to_meson_args()
to_meson_args == <<(<<"buildtype", "debugoptimized">>)>>

\* ------------------------------------------------------------ configuration
\* The compilation targets: the host itself, or a cross target.  Only CheriBSD
\* installed via pkg64 overrides PKG_CONFIG_LIBDIR.
Targets ==
    { [host |-> TRUE,  os |-> "freebsd",   pkg_config_libdir_override |-> None],
      [host |-> TRUE,  os |-> "cheribsd",  pkg_config_libdir_override |-> "/usr/local64/libdata/pkgconfig"],
      [host |-> FALSE, os |-> "freebsd",   pkg_config_libdir_override |-> None],
      [host |-> FALSE, os |-> "cheribsd",  pkg_config_libdir_override |-> None],
      [host |-> FALSE, os |-> "baremetal", pkg_config_libdir_override |-> None],
      [host |-> FALSE, os |-> "linux",     pkg_config_libdir_override |-> None] }

\* Directories a dependency can be installed to, as path components.
PrefixPool == { <<"rootfs", "usr", "local">>, <<"rootfs", "opt", "dep">>, <<"sysroot", "usr">> }
\* Directories a target can add to the RPATH, as path components.
RpathPool == { <<"usr", "local", "lib">>, <<"usr", "lib64c">> }

VARIABLES
    config,                          \* the options and target the adapter was constructed with
    phase,                           \* "constructed", "ready", "configured", "failed"
    failure,                         \* the exception that ended the run, "" if none
    returned,                        \* what the last call returned: "None", "True", "False"
    configure_command,               \* self.configure_command
    configure_args,                  \* self.configure_args
    minimum_cmake_or_meson_version,  \* self._minimum_cmake_or_meson_version
    new_version,                     \* the triple of the last set_minimum_meson_version call
    version_calls,                   \* number of set_minimum_meson_version calls made
    toolchain_template,              \* self._toolchain_template
    toolchain_file,                  \* self._toolchain_file
    configure_environment,           \* self.configure_environment
    make_args_env,                   \* the environment of self.make_args
    COMMON_LDFLAGS,                  \* self.COMMON_LDFLAGS
    files,                           \* the paths that exist on disk
    commands,                        \* what the adapter did to the outside, in order
    configure_calls,                 \* number of configure() calls made
    test_runs,                       \* number of run_tests() calls made
    info_at_setup,                   \* whether meson-info existed when setup() looked
    info_at_configure                \* per configure() call, whether meson-info existed when it looked

vars == << config, phase, failure, returned, configure_command, configure_args,
           minimum_cmake_or_meson_version, new_version, version_calls,
           toolchain_template, toolchain_file, configure_environment, make_args_env,
           COMMON_LDFLAGS, files, commands, configure_calls, test_runs,
           info_at_setup, info_at_configure >>

\* The adapter's own fields, as opposed to the disk and the record of commands.
adapter_state == << configure_command, configure_args, minimum_cmake_or_meson_version,
                    toolchain_template, toolchain_file, configure_environment,
                    make_args_env, COMMON_LDFLAGS >>

compiling_for_host == config.target.host
is_freebsd == config.target.os \in {"freebsd", "cheribsd"}
is_cheribsd == config.target.os = "cheribsd"
is_baremetal == config.target.os = "baremetal"

exists(path) == path \in files

\* ------------------------------------------------- set_minimum_meson_version
\* Python's tuple comparison new_version >= old on triples.
version_ge(a, b) ==
    \/ a[1] > b[1]
    \/ a[1] = b[1] /\ a[2] > b[2]
    \/ a[1] = b[1] /\ a[2] = b[2] /\ a[3] >= b[3]

version_ge_major_only(a, b) == a[1] >= b[1]

\* The assertion with the triples compared on their first component only.
version_assertion_first_component(new, old) == old = NoVersion \/ version_ge_major_only(new, old)

\* The assertion of set_minimum_meson_version.
version_assertion(new, old) == old = NoVersion \/ version_ge(new, old)

VersionTriples ==
    (0..MaxMajor) \X ((MinMesonMinor - MinorSpread)..(MinMesonMinor + MinorSpread)) \X (0..MaxPatch)

set_minimum_meson_version(major, minor, patch) ==
    /\ phase \in {"constructed", "ready", "configured"}
    /\ version_calls < MaxVersionCalls
    /\ version_calls' = version_calls + 1
    /\ new_version' = <<major, minor, patch>>
    /\ returned' = "None"
    /\ IF version_assertion(<<major, minor, patch>>, minimum_cmake_or_meson_version)
       THEN /\ minimum_cmake_or_meson_version' = <<major, minor, patch>>
            /\ UNCHANGED <<phase, failure>>
       ELSE /\ phase' = "failed"
            /\ failure' = "AssertionError"
            /\ UNCHANGED minimum_cmake_or_meson_version
    /\ UNCHANGED << config, configure_command, configure_args, toolchain_template,
                    toolchain_file, configure_environment, make_args_env, COMMON_LDFLAGS,
                    files, commands, configure_calls, test_runs, info_at_setup,
                    info_at_configure >>

SetMinimumMesonVersion ==
    \E v \in VersionTriples : set_minimum_meson_version(v[1], v[2], v[3])

\* ----------------------------------------------------------------- __init__
\* The state __init__ leaves: "setup" put first in the argument list, the command
\* from MESON_COMMAND or "meson", the version floor raised from None to 0.57.0.
init_configure_command(c) == IF c.MESON_COMMAND = None THEN "meson" ELSE c.MESON_COMMAND

init_configure_args == <<Arg("setup")>>

AfterInit(c, disk) ==
    /\ config = c
    /\ phase = "constructed"
    /\ failure = ""
    /\ returned = "None"
    /\ configure_command = init_configure_command(c)
    /\ configure_args = init_configure_args
    /\ minimum_cmake_or_meson_version = <<MinMesonMajor, MinMesonMinor, DefaultPatch>>
    /\ new_version = <<MinMesonMajor, MinMesonMinor, DefaultPatch>>
    /\ version_calls = 1
    /\ toolchain_template = None
    /\ toolchain_file = None
    /\ configure_environment = {}
    /\ make_args_env = {}
    /\ COMMON_LDFLAGS = <<>>
    /\ files = disk
    /\ commands = <<>>
    /\ configure_calls = 0
    /\ test_runs = 0
    /\ info_at_setup = FALSE
    /\ info_at_configure = <<>>

\* -------------------------------------------------------------------- setup
\* The cross targets setup() accepts, anything else ignored.
cross_target_supported_any == TRUE

\* assert self.target_info.is_freebsd() or self.target_info.is_baremetal()
cross_target_supported == is_freebsd \/ is_baremetal

cross_toolchain_file == PathJoin(build_dir, "meson-cross-file.ini")

\* MesonProject._native_toolchain_file
native_toolchain_file == PathJoin(build_dir, "meson-native-file.ini")

meson_info == PathJoin(build_dir, "meson-info")

\* The test of setup() and configure() with the clean flag ignored.
reconfigure_requested_ignoring_clean == config.force_configure /\ exists(meson_info)

\* self.force_configure and not self.with_clean and (self.build_dir / "meson-info").exists()
reconfigure_requested == config.force_configure /\ ~config.with_clean /\ exists(meson_info)

\* Path.relative_to on path components.
is_relative_to(p, base) == Len(p) >= Len(base) /\ SubSeq(p, 1, Len(base)) = base
relative_to(p, base) == SubSeq(p, Len(base) + 1, Len(p))

\* extra_libdirs before the rootfs prefix is removed.
libdirs_of_prefixes == [i \in 1..Len(config.dependency_install_prefixes) |->
                          config.dependency_install_prefixes[i] \o default_libdir]

\* self.rootfs_dir raises LookupError (suppressed) when there is no rootfs or no
\* prefix to look at; relative_to raises ValueError (not suppressed) otherwise.
rootfs_looked_up == config.has_rootfs /\ libdirs_of_prefixes # <<>>
relative_to_raises == rootfs_looked_up /\ \E d \in Range(libdirs_of_prefixes) : ~is_relative_to(d, rootfs_dir)

extra_libdirs == IF rootfs_looked_up
                 THEN [i \in 1..Len(libdirs_of_prefixes) |-> relative_to(libdirs_of_prefixes[i], rootfs_dir)]
                 ELSE libdirs_of_prefixes

\* The RPATH list with the duplicates kept.
rpath_dirs_with_duplicates == config.additional_rpath_directories \o extra_libdirs

\* rpath_dirs = remove_duplicates(additional_rpath_directories + extra_libdirs)
rpath_dirs == remove_duplicates(config.additional_rpath_directories \o extra_libdirs)

rpath_flag(dirs) == [flag |-> "-Wl,-rpath=", dirs |-> dirs]

\* The toolchain arguments of setup(): lines 95-104.
setup_toolchain_args ==
    IF ~compiling_for_host
    THEN << Arg("--cross-file"), Arg(cross_toolchain_file),
            Arg("--native-file"), Arg(native_toolchain_file) >>
    ELSE << Arg("--native-file"), Arg(native_toolchain_file) >>

lto_options == IF config.use_lto
               THEN << <<"b_lto", bool_to_str(TRUE)>>, <<"b_lto_threads", make_jobs>>,
                       <<"b_lto_mode", IF config.is_clang THEN "thin" ELSE "default">> >>
               ELSE <<>>

asan_options == IF config.use_asan
                THEN << <<"b_sanitize", "address,undefined">>, <<"b_lundef", bool_to_str(FALSE)>> >>
                ELSE <<>>

\* The argument list setup() leaves when it gets past its assertion.
setup_configure_args ==
    add_meson_options(
        configure_args \o setup_toolchain_args
            \o (IF reconfigure_requested THEN <<Arg("--reconfigure")>> ELSE <<>>)
            \o <<Arg("--wrap-mode=nofallback")>>,
        to_meson_args \o lto_options \o asan_options)

pkg_config_env == IF compiling_for_host /\ config.target.pkg_config_libdir_override # None
                  THEN {<<"PKG_CONFIG_LIBDIR", config.target.pkg_config_libdir_override>>}
                  ELSE {}

setup ==
    /\ phase = "constructed"
    /\ returned' = "None"
    /\ toolchain_template' = "files/meson-machine-file.ini.in"
    /\ info_at_setup' = exists(meson_info)
    /\ IF ~compiling_for_host /\ ~cross_target_supported
       THEN \* the assertion fails before anything else is touched
            /\ phase' = "failed"
            /\ failure' = "AssertionError: Only tested FreeBSD/baremetal"
            /\ UNCHANGED << configure_args, toolchain_file, configure_environment,
                            make_args_env, COMMON_LDFLAGS >>
       ELSE /\ toolchain_file' = IF ~compiling_for_host THEN cross_toolchain_file
                                 ELSE PathJoin(build_dir, "meson-native-file.ini")
            /\ configure_args' = setup_configure_args
            /\ configure_environment' = configure_environment \cup pkg_config_env
            /\ make_args_env' = make_args_env \cup pkg_config_env
            /\ IF ~compiling_for_host /\ relative_to_raises
               THEN /\ phase' = "failed"
                    /\ failure' = "ValueError"
                    /\ UNCHANGED COMMON_LDFLAGS
               ELSE /\ phase' = "ready"
                    /\ failure' = ""
                    /\ COMMON_LDFLAGS' =
                          IF ~compiling_for_host /\ rpath_dirs # <<>>
                          THEN Append(COMMON_LDFLAGS, rpath_flag(rpath_dirs))
                          ELSE COMMON_LDFLAGS
    /\ UNCHANGED << config, configure_command, minimum_cmake_or_meson_version, new_version,
                    version_calls, files, commands, configure_calls, test_runs,
                    info_at_configure >>

\* --------------------------------------------------------- needs_configure
build_ninja == PathJoin(build_dir, "build.ninja")

\* The query answering whether the marker is there instead of whether it is missing.
needs_configure_value_inverted == exists(build_ninja)

\* return not (self.build_dir / "build.ninja").exists()
needs_configure_value == ~exists(build_ninja)

needs_configure ==
    /\ phase \in {"ready", "configured"}
    /\ returned' = IF needs_configure_value THEN "True" ELSE "False"
    /\ UNCHANGED << config, phase, failure, configure_command, configure_args,
                    minimum_cmake_or_meson_version, new_version, version_calls,
                    toolchain_template, toolchain_file, configure_environment,
                    make_args_env, COMMON_LDFLAGS, files, commands, configure_calls,
                    test_runs, info_at_setup, info_at_configure >>

\* ---------------------------------------------------------------- configure
\* One thing the adapter did to the outside: kind is "write" (a toolchain file
\* written), "run_cmd" (self.run_cmd), "configure" (the command super().configure()
\* runs), "install_file", "test_script" (the CheriBSD test harness) or "info";
\* call is the number of the configure() call that did it, 0 outside configure().
event(kind, call, argv, cwd) == [kind |-> kind, call |-> call, argv |-> argv, cwd |-> cwd]

compile_commands == PathJoin(build_dir, "compile_commands.json")
source_compile_commands == PathJoin(source_dir, "compile_commands.json")

\* What a successful `meson setup` leaves in the build directory.
meson_outputs == {meson_info, build_ninja, compile_commands}

BuildDirFiles == meson_outputs \cup {cross_toolchain_file, native_toolchain_file}

\* The toolchain files configure() writes with the native file of a cross build
\* left out.
toolchain_files_written_cross_only == <<toolchain_file>>

\* The toolchain files configure() writes: self._toolchain_file, and the native
\* file beside it when cross-compiling.
toolchain_files_written ==
    IF ~compiling_for_host THEN <<toolchain_file, native_toolchain_file>>
    ELSE <<toolchain_file>>

\* assert self.config.other_tools_dir in host_prefixes
host_prefixes_assertion == other_tools_dir \in Range(config.host_dependency_prefixes)

\* The install-prefix precondition with the check of DESTDIR dropped.
prefix_assertion_unchecked == TRUE

\* assert self.destdir, "custom install prefix requires DESTDIR being set!"
prefix_assertion == config.install_prefix = install_dir \/ config.destdir # None

\* prefix=self.install_prefix if it differs from self.install_dir, else prefix=self.install_dir
prefix_option == IF config.install_prefix # install_dir THEN config.install_prefix ELSE install_dir

write_events(call, paths) ==
    [i \in 1..Len(paths) |-> event("write", call, <<Arg(paths[i])>>, "")]

\* self.configure_args.append(str(self.source_dir)); ...append(str(self.build_dir))
with_positional_args(args) == args \o <<Arg(source_dir), Arg(build_dir)>>

\* self.configure_args.append("--reconfigure") in configure()
with_reconfigure(args) == Append(args, Arg("--reconfigure"))

clearcache_event(call) ==
    event("run_cmd", call, <<Arg(configure_command), Arg("configure"), Arg("--clearcache")>>, build_dir)

\* configure() as a whole; clear_ok and meson_ok are the exit states of the two
\* external commands, should they be run.
configure(clear_ok, meson_ok) ==
    LET call    == configure_calls + 1
        cross   == ~compiling_for_host
        writes  == toolchain_files_written
        first   == write_events(call, <<writes[1]>>)
        all     == write_events(call, writes)
        clear   == reconfigure_requested
        args1   == add_meson_options(configure_args, <<(<<"prefix", prefix_option>>)>>)
        args2   == IF clear THEN with_reconfigure(args1) ELSE args1
        args3   == with_positional_args(args2)
        cleared == IF clear THEN <<clearcache_event(call)>> ELSE <<>>
        invoke  == event("configure", call, <<Arg(configure_command)>> \o args3, build_dir)
        copy    == config.copy_compilation_db_to_source_dir
        Fail(why, args, cmds, disk) ==
            /\ phase' = "failed"
            /\ failure' = why
            /\ configure_args' = args
            /\ commands' = commands \o cmds
            /\ files' = files \cup disk
    IN
    /\ \/ phase = "ready"
       \/ phase = "configured" /\ needs_configure_value
    /\ configure_calls < MaxConfigureCalls
    /\ configure_calls' = call
    /\ info_at_configure' = Append(info_at_configure, exists(meson_info))
    /\ returned' = "None"
    /\ IF cross /\ ~host_prefixes_assertion
         THEN Fail("AssertionError", configure_args, first, {writes[1]})
       ELSE IF ~prefix_assertion
         THEN Fail("AssertionError: custom install prefix requires DESTDIR being set!",
                   configure_args, all, Range(writes))
       ELSE IF clear /\ ~clear_ok
         THEN Fail("ToolInvocationFailure", args2, all \o cleared, Range(writes))
       ELSE IF ~meson_ok
         THEN Fail("ToolInvocationFailure", args3, all \o cleared \o <<invoke>>, Range(writes))
       ELSE /\ phase' = "configured"
            /\ failure' = ""
            /\ configure_args' = args3
            /\ commands' = commands \o all \o cleared \o <<invoke>>
                  \o (IF copy
                      THEN <<event("install_file", call,
                                   <<Arg(compile_commands), Arg(source_compile_commands)>>, "")>>
                      ELSE <<>>)
            /\ files' = files \cup Range(writes) \cup meson_outputs
                  \cup (IF copy THEN {source_compile_commands} ELSE {})
    /\ UNCHANGED << config, configure_command, minimum_cmake_or_meson_version, new_version,
                    version_calls, toolchain_template, toolchain_file, configure_environment,
                    make_args_env, COMMON_LDFLAGS, test_runs, info_at_setup >>

Configure == \E clear_ok \in BOOLEAN, meson_ok \in BOOLEAN : configure(clear_ok, meson_ok)

\* ---------------------------------------------------------------- run_tests
\* The branch of run_tests() with every cross target sent to the test harness.
run_tests_branch_always_remote == IF compiling_for_host THEN "local" ELSE "remote"

\* if self.compiling_for_host(): ... elif self.target_info.is_cheribsd(): ... else: ...
run_tests_branch ==
    IF compiling_for_host THEN "local"
    ELSE IF is_cheribsd THEN "remote"
    ELSE "info"

run_tests(ok) ==
    LET branch == run_tests_branch
        what == CASE branch = "local" ->
                       event("run_cmd", 0, <<Arg(configure_command), Arg("test"),
                                             Arg("--print-errorlogs")>>, build_dir)
                  [] branch = "remote" ->
                       event("test_script", 0, <<Arg("run_meson_tests.py")>>, "")
                  [] OTHER ->
                       event("info", 0, <<Arg("Don't know how to run tests for")>>, "")
    IN
    /\ phase = "configured"
    /\ test_runs < MaxTestRuns
    /\ test_runs' = test_runs + 1
    /\ returned' = "None"
    /\ commands' = Append(commands, what)
    /\ IF branch # "info" /\ ~ok
       THEN phase' = "failed" /\ failure' = "ToolInvocationFailure"
       ELSE UNCHANGED <<phase, failure>>
    /\ UNCHANGED << config, configure_command, configure_args,
                    minimum_cmake_or_meson_version, new_version, version_calls,
                    toolchain_template, toolchain_file, configure_environment,
                    make_args_env, COMMON_LDFLAGS, files, configure_calls,
                    info_at_setup, info_at_configure >>

RunTests == \E ok \in BOOLEAN : run_tests(ok)

\* -------------------------------------------------------------- environment
\* The build directory is wiped (the framework's clean step, or by hand).
clean_build_dir ==
    /\ phase \in {"constructed", "ready", "configured"}
    /\ files \cap BuildDirFiles # {}
    /\ files' = files \ BuildDirFiles
    /\ returned' = "None"
    /\ UNCHANGED << config, phase, failure, configure_command, configure_args,
                    minimum_cmake_or_meson_version, new_version, version_calls,
                    toolchain_template, toolchain_file, configure_environment,
                    make_args_env, COMMON_LDFLAGS, commands, configure_calls,
                    test_runs, info_at_setup, info_at_configure >>

\* ------------------------------------------------------------ specifications
\* What the build directory can hold when the adapter is constructed: nothing, the
\* remains of a configure that failed, or a configured tree.
InitialDisks == { {}, {meson_info}, meson_outputs }

\* The adapters of the lifecycle specification: every target and every
\* combination of the options configure() reads; the sanitizer and compiler
\* options, which only setup() reads, vary in the setup specification.
LifecycleConfigs ==
    [ target : Targets,
      force_configure : BOOLEAN,
      with_clean : BOOLEAN,
      install_prefix : {install_dir, custom_prefix},
      destdir : {None, "/rootfs"},
      use_lto : BOOLEAN,
      use_asan : {FALSE},
      is_clang : {TRUE},
      MESON_COMMAND : {None, "/opt/meson/meson.py"},
      copy_compilation_db_to_source_dir : BOOLEAN,
      host_dependency_prefixes : { <<other_tools_dir>>, <<"/usr/local", other_tools_dir>> },
      has_rootfs : {TRUE},
      dependency_install_prefixes : { <<(<<"rootfs", "usr", "local">>)>> },
      additional_rpath_directories : { <<(<<"usr", "local", "lib">>)>> } ]

Init == \E c \in LifecycleConfigs, disk \in InitialDisks : AfterInit(c, disk)

Next == setup \/ needs_configure \/ Configure \/ RunTests \/ clean_build_dir

Spec == Init /\ [][Next]_vars

\* The adapters of the setup specification: every target, every combination of
\* the options setup() turns into arguments, every short list of directories.
SetupConfigs ==
    [ target : Targets,
      force_configure : BOOLEAN,
      with_clean : {FALSE},
      install_prefix : {install_dir},
      destdir : {None},
      use_lto : BOOLEAN,
      use_asan : BOOLEAN,
      is_clang : BOOLEAN,
      MESON_COMMAND : {None},
      copy_compilation_db_to_source_dir : {FALSE},
      host_dependency_prefixes : { <<other_tools_dir>> },
      has_rootfs : BOOLEAN,
      dependency_install_prefixes : SeqsUpTo(PrefixPool, MaxPrefixes),
      additional_rpath_directories : SeqsUpTo(RpathPool, MaxRpathDirs) ]

InitSetup == \E c \in SetupConfigs : AfterInit(c, {meson_info})

NextSetup == setup \/ needs_configure

SpecSetup == InitSetup /\ [][NextSetup]_vars

\* The adapter of the version specification: one adapter, the floor raised again
\* and again after __init__.
VersionConfig ==
    CHOOSE c \in LifecycleConfigs :
        /\ c.target = [host |-> TRUE, os |-> "freebsd", pkg_config_libdir_override |-> None]
        /\ ~c.force_configure /\ ~c.with_clean /\ c.install_prefix = install_dir
        /\ c.destdir = None /\ ~c.use_lto /\ ~c.copy_compilation_db_to_source_dir
        /\ c.host_dependency_prefixes = <<other_tools_dir>>

InitVersion == AfterInit(VersionConfig, {})

NextVersion == SetMinimumMesonVersion

SpecVersion == InitVersion /\ [][NextVersion]_vars

\* =================================================================== claims
IsSetupInvocation(e) == e.kind = "configure"
IsClearCache(e) == e.kind = "run_cmd" /\ Len(e.argv) = 3 /\ e.argv[2] = Arg("configure")
                      /\ e.argv[3] = Arg("--clearcache") /\ e.cwd = build_dir
IsMesonCommand(e) == e.kind \in {"run_cmd", "configure"}

Indices(P(_)) == {i \in DOMAIN commands : P(commands[i])}

ForcedReconfigureAt(k) == config.force_configure /\ ~config.with_clean /\ info_at_configure[k]

\* C1: in the first configure() of an adapter with a forced reconfigure requested,
\* the clean flag not set and meson-info present at setup() and at configure(),
\* the arguments of the Meson setup invocation hold --reconfigure exactly once.
C1_ReconfigureExactlyOnce ==
    \A i \in Indices(IsSetupInvocation) :
        ( /\ commands[i].call = 1
          /\ config.force_configure /\ ~config.with_clean
          /\ info_at_setup /\ info_at_configure[1] )
        => Count(commands[i].argv, Arg("--reconfigure")) = 1

\* The ordering half of C2: a cache-clearing command comes at most once per
\* configure() call, and before that call's Meson setup invocation.
ClearCacheComesFirst ==
    /\ \A i, j \in Indices(IsClearCache) : commands[i].call = commands[j].call => i = j
    /\ \A i \in Indices(IsClearCache), j \in Indices(IsSetupInvocation) :
          commands[i].call = commands[j].call => i < j

\* C2 as stated: in every configure() call the cache-clearing command is issued
\* if and only if a forced reconfigure is requested, the clean flag is not set and
\* meson-info exists; when issued it precedes the Meson setup invocation of that call.
C2_ClearCacheIffRequested ==
    /\ \A k \in 1..configure_calls :
          (\E i \in Indices(IsClearCache) : commands[i].call = k) <=> ForcedReconfigureAt(k)
    /\ ClearCacheComesFirst

PrefixPreconditionMet == config.install_prefix = install_dir \/ config.destdir # None

\* C2 amended: in every configure() call the cache-clearing command is issued if
\* and only if a forced reconfigure is requested, the clean flag is not set,
\* meson-info exists and the call gets past its install-prefix precondition (the
\* prefix is the install directory, or DESTDIR is set); when issued it precedes the
\* Meson setup invocation of that call.
C2_ClearCacheIffRequestedAndReached ==
    /\ \A k \in 1..configure_calls :
          (\E i \in Indices(IsClearCache) : commands[i].call = k)
             <=> (ForcedReconfigureAt(k) /\ PrefixPreconditionMet)
    /\ ClearCacheComesFirst

\* C2 witness: a configure() cleared the cache and then ran Meson setup.
C2_Witness ==
    \E i \in Indices(IsClearCache), j \in Indices(IsSetupInvocation) :
        commands[i].call = 1 /\ commands[j].call = 1 /\ i < j /\ ForcedReconfigureAt(1)

\* The lexicographic order on triples: a < b at the first component they differ in.
LexLess(a, b) == \E i \in 1..3 : a[i] < b[i] /\ \A j \in 1..(i - 1) : a[j] = b[j]

\* C3: every set_minimum_meson_version call with a triple not below the stored
\* floor stores exactly that triple, and every call with a smaller triple fails
\* and leaves the floor as it was; so the floor never decreases.
C3_FloorNeverDecreases ==
    [][ version_calls' # version_calls =>
          IF LexLess(new_version', minimum_cmake_or_meson_version)
          THEN /\ minimum_cmake_or_meson_version' = minimum_cmake_or_meson_version
               /\ phase' = "failed" /\ failure' = "AssertionError"
          ELSE /\ minimum_cmake_or_meson_version' = new_version'
               /\ phase' = phase /\ failure' = "" ]_vars

\* C3 witness: the floor was raised above 0.57.0 by two calls and a call below it failed.
C3_Witness ==
    /\ version_calls = 4
    /\ phase = "failed"
    /\ LexLess(<<MinMesonMajor, MinMesonMinor, DefaultPatch>>, minimum_cmake_or_meson_version)
    /\ LexLess(new_version, minimum_cmake_or_meson_version)
    /\ new_version[1] >= minimum_cmake_or_meson_version[1]

UnsupportedCrossTarget == ~config.target.host /\ config.target.os \notin {"freebsd", "cheribsd", "baremetal"}

\* C4: for a cross target that is neither FreeBSD nor baremetal, setup() fails on
\* its assertion with no toolchain file written and neither --cross-file nor
\* --native-file in the argument list.
C4_UnsupportedTargetFailsFirst ==
    (UnsupportedCrossTarget /\ phase # "constructed") =>
        /\ phase = "failed"
        /\ failure = "AssertionError: Only tested FreeBSD/baremetal"
        /\ commands = <<>>
        /\ files \cap {cross_toolchain_file, native_toolchain_file} = {}
        /\ toolchain_file = None
        /\ Count(configure_args, Arg("--cross-file")) = 0
        /\ Count(configure_args, Arg("--native-file")) = 0
        /\ configure_args = <<Arg("setup")>>

\* C4 witness: setup() has failed for a cross build for Linux.
C4_Witness ==
    /\ UnsupportedCrossTarget
    /\ phase = "failed"
    /\ toolchain_template # None

\* The paths written by configure() call k before command i.
WrittenBefore(i, k) ==
    {j \in 1..(i - 1) : commands[j].kind = "write" /\ commands[j].call = k}

\* The files the arguments argv point Meson at.
PointedAt(argv) ==
    {argv[j + 1][1] : j \in {n \in 1..(Len(argv) - 1) :
                                argv[n] \in {Arg("--cross-file"), Arg("--native-file")}}}

\* C5: whenever the Meson setup command runs, the same configure() call has
\* written every file the arguments point at: when cross-compiling exactly one
\* cross file and exactly one native file at another path, in a native build a
\* single native file and no --cross-file argument.
C5_ToolchainFilesWrittenFirst ==
    \A i \in Indices(IsSetupInvocation) :
        LET argv == commands[i].argv
            w == WrittenBefore(i, commands[i].call)
            paths == {commands[j].argv[1][1] : j \in w}
            Writes(path) == {j \in w : commands[j].argv[1][1] = path}
        IN /\ PointedAt(argv) = paths
           /\ \A path \in paths : Cardinality(Writes(path)) = 1
           /\ IF ~config.target.host
              THEN /\ Cardinality(paths) = 2
                   /\ Count(argv, Arg("--cross-file")) = 1
                   /\ Count(argv, Arg("--native-file")) = 1
                   /\ \E n \in 1..(Len(argv) - 1) :
                         argv[n] = Arg("--cross-file") /\ argv[n + 1] = Arg("/build/meson-cross-file.ini")
                   /\ \E n \in 1..(Len(argv) - 1) :
                         argv[n] = Arg("--native-file") /\ argv[n + 1] = Arg("/build/meson-native-file.ini")
              ELSE /\ paths = {"/build/meson-native-file.ini"}
                   /\ Count(argv, Arg("--cross-file")) = 0
                   /\ Count(argv, Arg("--native-file")) = 1

\* C5 witness: a replayed configure() of a cross build ran Meson setup.
C5_Witness ==
    \E i \in Indices(IsSetupInvocation) :
        /\ ~config.target.host
        /\ commands[i].call = 2
        /\ Cardinality(WrittenBefore(i, 2)) = 2

PrefixOptions(args) == SelectSeq(args, LAMBDA tok : Len(tok) = 3 /\ tok[1] = "-D" /\ tok[2] = "prefix")

\* C6: once configure() has been called, with the install prefix equal to the
\* install directory the options hold prefix=<install-dir>; with a different
\* prefix and DESTDIR set they hold prefix=<custom prefix>; with a different
\* prefix and no DESTDIR configure() has failed on its assertion and no Meson
\* command, cache-clearing or setup, was run.
C6_PrefixOptionOrFailure ==
    configure_calls >= 1 =>
        /\ config.install_prefix = install_dir =>
              PrefixOptions(configure_args) = << <<"-D", "prefix", install_dir>> >>
        /\ (config.install_prefix # install_dir /\ config.destdir # None) =>
              PrefixOptions(configure_args) = << <<"-D", "prefix", config.install_prefix>> >>
        /\ (config.install_prefix # install_dir /\ config.destdir = None) =>
              /\ phase = "failed"
              /\ failure = "AssertionError: custom install prefix requires DESTDIR being set!"
              /\ Indices(IsMesonCommand) = {}
              /\ PrefixOptions(configure_args) = <<>>
        /\ \A i \in Indices(IsSetupInvocation) :
              PrefixOptions(commands[i].argv) = << <<"-D", "prefix", config.install_prefix>> >>

\* C6 witness: configure() failed for a custom prefix without DESTDIR although a
\* forced reconfigure was due.
C6_Witness ==
    /\ configure_calls = 1
    /\ config.install_prefix # install_dir /\ config.destdir = None
    /\ ForcedReconfigureAt(1)
    /\ phase = "failed"

\* C7: every run_tests() call does exactly one thing: in a native build the local
\* `meson test --print-errorlogs` in the build directory, in a cross build for
\* CheriBSD the remote test script, for any other cross target a message, after
\* which the call has ended without an error.
C7_RunTestsOneBranch ==
    [][ test_runs' # test_runs =>
          /\ Len(commands') = Len(commands) + 1
          /\ SubSeq(commands', 1, Len(commands)) = commands
          /\ LET e == commands'[Len(commands')]
             IN /\ config.target.host =>
                      /\ e.kind = "run_cmd"
                      /\ e.argv = <<Arg(configure_command), Arg("test"), Arg("--print-errorlogs")>>
                      /\ e.cwd = build_dir
                /\ (~config.target.host /\ config.target.os = "cheribsd") =>
                      e.kind = "test_script"
                /\ (~config.target.host /\ config.target.os # "cheribsd") =>
                      /\ e.kind = "info"
                      /\ phase' = "configured" /\ failure' = "" ]_vars

\* C7 witness: run_tests() left a message for a cross build that is not for CheriBSD.
C7_Witness ==
    /\ test_runs = 1
    /\ ~config.target.host /\ config.target.os = "baremetal"
    /\ commands[Len(commands)].kind = "info"
    /\ phase = "configured"

FirstIndex(s, x) == CHOOSE i \in 1..Len(s) : s[i] = x /\ \A j \in 1..(i - 1) : s[j] # x

C9_NeedsConfigureIsPureQuery ==
    [][ returned' # "None" =>
          /\ returned' = (IF "/build/build.ninja" \in files THEN "False" ELSE "True")
          /\ UNCHANGED << adapter_state, config, phase, failure, files, commands,
                          configure_calls, test_runs >> ]_vars

\* C9 witness: needs_configure() returned false after a configure() created build.ninja
\* in a build directory that had none.
C9_Witness ==
    /\ returned = "False"
    /\ configure_calls = 1
    /\ Len(info_at_configure) = 1 /\ ~info_at_configure[1]

FlagTokens == { Arg("--cross-file"), Arg("--native-file"), Arg("--reconfigure"),
                Arg("--wrap-mode=nofallback") }

\* The positions of the positional arguments of a `meson setup` command line: not
\* the command, not the subcommand, not a flag, not a flag's value, not an option.
Positional(argv) ==
    {n \in 3..Len(argv) :
        /\ Len(argv[n]) = 1
        /\ argv[n] \notin FlagTokens
        /\ argv[n - 1] \notin {Arg("--cross-file"), Arg("--native-file")}}

\* C10: in every Meson setup invocation, a replayed configure() included, `setup`
\* is the first argument and the source and build directories are the only
\* positional arguments, once each, as the last two arguments in that order.
C10_DocumentedCommandLine ==
    \A i \in Indices(IsSetupInvocation) :
        LET argv == commands[i].argv
            n == Len(argv)
        IN /\ n >= 4
           /\ argv[2] = Arg("setup")
           /\ argv[n - 1] = Arg(source_dir)
           /\ argv[n] = Arg(build_dir)
           /\ Positional(argv) = {n - 1, n}
====
